---- MODULE Spec2Model ----
(***************************************************************************)
(* Model of meta_update.py: one run of the pipeline                        *)
(*   get_ttl -> get_old_meta -> get_new_meta (parse_volume_info) -> dump   *)
(* Strings whose characters the code inspects (URIs, image group ids,      *)
(* literal lexical forms) are sequences of character codes, so that        *)
(* split("/"), str ordering and int() are computed, not assumed.           *)
(***************************************************************************)
EXTENDS Integers, Sequences, FiniteSets, TLC

\* ------------------------------------------------------------------ bounds
\* largest number of instanceHasVolume objects of the work in a fetched graph
MaxVols == 2

\* ------------------------------------------------------- character strings
Slash == 47

\* BDR = Namespace("http://purl.bdrc.io/resource/")
BDR_NS == <<104, 116, 116, 112, 58, 47, 47, 112, 117, 114, 108, 46, 98, 100,
            114, 99, 46, 105, 111, 47, 114, 101, 115, 111, 117, 114, 99, 101, 47>>
\* a namespace other than BDR: "http://example.org/vol/"
OTHER_NS == <<104, 116, 116, 112, 58, 47, 47, 101, 120, 97, 109, 112, 108, 101,
              46, 111, 114, 103, 47, 118, 111, 108, 47>>

\* bdrc_work_id = "W22083"
bdrc_work_id == <<87, 50, 50, 48, 56, 51>>
\* opf_id = "P000003"
opf_id == "P000003"
\* another work described by the same graph: "W1"
OtherWork == <<87, 49>>

\* image group ids "I10", "I2", "I9"
I10 == <<73, 49, 48>>
I2 == <<73, 50>>
I9 == <<73, 57>>

\* literal lexical forms: "Vol 1", "", "12", "x", "50", "abc"
StrVol1 == <<86, 111, 108, 32, 49>>
StrEmpty == <<>>
Str12 == <<49, 50>>
StrX == <<120>>
Str50 == <<53, 48>>
StrAbc == <<97, 98, 99>>

\* Namespace.__getitem__: BDR[name] is the namespace string followed by name
BDR(name) == BDR_NS \o name

\* str.split("/")[-1]: the characters after the last "/"
RECURSIVE LastSegment(_)
LastSegment(s) ==
    IF s = <<>> THEN <<>>
    ELSE IF s[Len(s)] = Slash THEN <<>>
    ELSE Append(LastSegment(SubSeq(s, 1, Len(s) - 1)), s[Len(s)])

get_img_grp_id(URI) == LastSegment(URI)

\* str.__lt__: code point order, a proper prefix is smaller
RECURSIVE StrLess(_, _)
StrLess(a, b) ==
    IF b = <<>> THEN FALSE
    ELSE IF a = <<>> THEN TRUE
    ELSE IF a[1] # b[1] THEN a[1] < b[1]
    ELSE StrLess(Tail(a), Tail(b))

\* Optional values: <<>> is None, <<x>> is the value x
None == <<>>
Some(x) == <<x>>
IsNone(o) == o = <<>>

\* int(x) of a str: the value of its digits "0".."9" (codes 48..57); fails (ValueError) on anything else.
\* int(None) fails (TypeError).
IsDigits(s) == s # <<>> /\ \A k \in 1..Len(s) : s[k] >= 48 /\ s[k] <= 57

RECURSIVE DigitsValue(_)
DigitsValue(s) ==
    IF s = <<>> THEN 0
    ELSE 10 * DigitsValue(SubSeq(s, 1, Len(s) - 1)) + (s[Len(s)] - 48)

PyInt(o) ==
    IF IsNone(o) \/ ~IsDigits(o[1]) THEN [ok |-> FALSE, val |-> 0]
    ELSE [ok |-> TRUE, val |-> DigitsValue(o[1])]

\* --------------------------------------------------------------- rdf graph
\* A graph is a set of triples <<subject, predicate, object>>.
P_hasVolume == "instanceHasVolume"
P_comment == "comment"
P_volumeNumber == "volumeNumber"
P_pagesTotal == "volumePagesTotal"

\* Graph.objects(subject, predicate)
Objects(gr, s, p) == {t[3] : t \in {x \in gr : x[1] = s /\ x[2] = p}}

\* Graph.value(subject, predicate): an object or None
Value(gr, s, p) ==
    IF Objects(gr, s, p) = {} THEN None
    ELSE Some(CHOOSE o \in Objects(gr, s, p) : TRUE)

\* Literal.__bool__ of a plain literal: its value, a str, is non-empty
Truthy(o) == ~IsNone(o) /\ o[1] # <<>>

\* ------------------------------------------------------ python containers
\* A dict that keeps insertion order is a sequence of <<key, value>> pairs.
Keys(d) == {d[k][1] : k \in 1..Len(d)}

\* d[key] = val: replaces in place an existing key, otherwise appends
DictSet(d, key, val) ==
    IF key \in Keys(d)
    THEN [k \in 1..Len(d) |-> IF d[k][1] = key THEN <<key, val>> ELSE d[k]]
    ELSE Append(d, <<key, val>>)

\* list.sort() on str: ascending, by insertion
RECURSIVE Insert(_, _)
Insert(x, s) ==
    IF s = <<>> THEN <<x>>
    ELSE IF StrLess(x, s[1]) THEN <<x>> \o s
    ELSE <<s[1]>> \o Insert(x, Tail(s))

RECURSIVE PySort(_)
PySort(s) ==
    IF s = <<>> THEN <<>>
    ELSE Insert(s[Len(s)], PySort(SubSeq(s, 1, Len(s) - 1)))

\* every order in which an iterator can yield the elements of S
Orders(S) ==
    {o \in [1..Cardinality(S) -> S] : \A a, b \in 1..Cardinality(S) : o[a] = o[b] => a = b}

\* Python values of a metadata document: t is the type, s the payload of a
\* str, m the items of a mapping loaded from yaml, v the items of a mapping
\* built by parse_volume_info (insertion ordered).
NoItems == [k \in {} |-> 0]
PyNone == [t |-> "none", s |-> "", m |-> NoItems, v |-> <<>>]
PyStr(x) == [t |-> "str", s |-> x, m |-> NoItems, v |-> <<>>]
PyList == [t |-> "list", s |-> "", m |-> NoItems, v |-> <<>>]
PyMap(items) == [t |-> "map", s |-> "", m |-> items, v |-> <<>>]
PyVolMap(d) == [t |-> "map", s |-> "", m |-> NoItems, v |-> d]

\* a mutation of obj[key]: a mapping without the key yields a new empty mapping
GetItem_default(obj, key) ==
    IF obj.t = "map"
    THEN [ok |-> TRUE,
          val |-> IF key \in DOMAIN obj.m THEN obj.m[key]
                  ELSE [t |-> "map", s |-> "", m |-> [k \in {} |-> 0], v |-> <<>>]]
    ELSE [ok |-> FALSE, val |-> [t |-> "none", s |-> "", m |-> [k \in {} |-> 0], v |-> <<>>]]

\* obj[key] with a str key: KeyError on a mapping without the key, TypeError
\* on None, a str or a list
GetItem(obj, key) ==
    IF obj.t = "map" /\ key \in DOMAIN obj.m
    THEN [ok |-> TRUE, val |-> obj.m[key]]
    ELSE [ok |-> FALSE, val |-> PyNone]

\* obj[key] = val with a str key: TypeError unless obj is a mapping
SetItem(obj, key, val) ==
    IF obj.t = "map"
    THEN [ok |-> TRUE,
          val |-> [obj EXCEPT !.m = [k \in (DOMAIN obj.m) \cup {key} |->
                                        IF k = key THEN val ELSE obj.m[k]]]]
    ELSE [ok |-> FALSE, val |-> obj]

\* ------------------------------------------------------------------ inputs
\* Response bodies of the catalog GET: kind says whether the text is the empty
\* string, a Turtle document (denoting triples), text that breaks the Turtle
\* grammar (after statements denoting triples), or the error page of a
\* non-2xx response.
EmptyText == [kind |-> "empty", triples |-> {}]
Malformed(T) == [kind |-> "malformed", triples |-> T]
ErrorPage == [kind |-> "errorpage", triples |-> {}]
Turtle(T) == [kind |-> "turtle", triples |-> T]
Unset == [kind |-> "unset", triples |-> {}]

\* volume nodes a graph can relate to the work; two of them share their
\* trailing segment
VolumeURIs == {BDR(I10), BDR(I2), OTHER_NS \o I2}

OptTitles == {None, Some(StrVol1), Some(StrEmpty)}
OptNumbers == {None, Some(Str12), Some(StrX)}
OptPages == {None, Some(Str50), Some(StrAbc)}

NodeChoices == [title : OptTitles, num : OptNumbers, pages : OptPages]

\* the triples that describe the resource node of an image group
NodeTriples(id, c) ==
    {<<BDR(id), P_comment, c.title[k]>> : k \in 1..Len(c.title)}
    \cup {<<BDR(id), P_volumeNumber, c.num[k]>> : k \in 1..Len(c.num)}
    \cup {<<BDR(id), P_pagesTotal, c.pages[k]>> : k \in 1..Len(c.pages)}

\* every graph has a second work with a volume of its own
Graphs ==
    {  {<<BDR(bdrc_work_id), P_hasVolume, u>> : u \in vs}
       \cup UNION {NodeTriples(id, f[id]) : id \in DOMAIN f}
       \cup {<<BDR(OtherWork), P_hasVolume, BDR(I9)>>,
             <<BDR(I9), P_volumeNumber, Str12>>}
     : <<vs, f>> \in
         UNION {  {<<ws, h>> : h \in [{LastSegment(u) : u \in ws} -> NodeChoices]}
                : ws \in {x \in SUBSET VolumeURIs : Cardinality(x) <= MaxVols}}  }

\* the statements of a truncated document: one volume, fully described
TruncatedGraph ==
    {<<BDR(bdrc_work_id), P_hasVolume, BDR(I2)>>,
     <<BDR(I2), P_comment, StrVol1>>,
     <<BDR(I2), P_volumeNumber, Str12>>}

\* HTTP responses of the catalog endpoint
Responses ==
    {[status |-> 200, body |-> b] :
        b \in {EmptyText, Malformed({}), Malformed(TruncatedGraph)}
              \cup {Turtle(T) : T \in Graphs}}
    \cup {[status |-> 404, body |-> ErrorPage]}

NoResponse == [status |-> 0, body |-> Unset]

OldRecord ==
    [image_group_id |-> I9, title |-> StrVol1, volume_number |-> 7, total_pages |-> 3]

\* documents yaml.safe_load can return for the fetched meta.yml
MetaDocs ==
    { PyNone,
      PyStr("text"),
      PyMap([k \in {"id"} |-> PyStr(opf_id)]),
      PyMap([k \in {"id", "source_metadata"} |->
               IF k = "id" THEN PyStr(opf_id) ELSE PyNone]),
      PyMap([k \in {"id", "source_metadata"} |->
               IF k = "id" THEN PyStr(opf_id) ELSE PyList]),
      PyMap([k \in {"id", "source_metadata"} |->
               IF k = "id" THEN PyStr(opf_id) ELSE PyMap(NoItems)]),
      PyMap([k \in {"id", "source_metadata"} |->
               IF k = "id" THEN PyStr(opf_id)
               ELSE PyMap([j \in {"title"} |-> PyStr("kangyur")])]),
      PyMap([k \in {"id", "source_metadata"} |->
               IF k = "id" THEN PyStr(opf_id)
               ELSE PyMap([j \in {"title", "volume"} |->
                             IF j = "title" THEN PyStr("kangyur")
                             ELSE PyVolMap(<< <<0, OldRecord>> >>)])]) }

\* values uuid.uuid4().hex can take
UuidSpace == 1..MaxVols

\* ------------------------------------------------------------------- state
VARIABLES
    pc,               \* position in __main__
    ttl_get,          \* outcome of requests.get in get_ttl
    ttl_raised,       \* requests.get raised in get_ttl
    meta_ttl,         \* text returned by get_ttl
    stdout,           \* lines printed
    log,              \* records written to meta_update.log
    fetched_meta,     \* value returned by get_old_meta, as it was returned
    old_meta,         \* the metadata object (mutated in place by get_new_meta)
    g,                \* Graph of parse_volume_info
    yielded,          \* the volume nodes in the order g.objects yielded them
    vol_img_grp_ids,  \* list returned by get_vol_img_grp_id_list
    i,                \* index of the next volume of the for loop
    vol_info,         \* dict built by parse_volume_info
    volume_info,      \* value parse_volume_info returned to get_new_meta
    new_meta,         \* value get_new_meta returned
    exc,              \* exception that ended the run
    new_meta_file     \* ./new_meta/{opf_id}/meta.yml: None or its content

vars == <<pc, ttl_get, ttl_raised, meta_ttl, stdout, log, fetched_meta, old_meta, g,
          yielded, vol_img_grp_ids, i, vol_info, volume_info, new_meta, exc, new_meta_file>>

Warning(msg, vol) == [level |-> "WARNING", msg |-> msg, work |-> bdrc_work_id, vol |-> vol]
Info(msg) == [level |-> "INFO", msg |-> msg, work |-> <<>>, vol |-> <<>>]

Init ==
    /\ pc = "get_ttl"
    /\ ttl_get = NoResponse
    /\ ttl_raised = FALSE
    /\ meta_ttl = Unset
    /\ stdout = <<>>
    /\ log = <<>>
    /\ fetched_meta = PyNone
    /\ old_meta = PyNone
    /\ g = {}
    /\ yielded = <<>>
    /\ vol_img_grp_ids = <<>>
    /\ i = 1
    /\ vol_info = <<>>
    /\ volume_info = <<>>
    /\ new_meta = PyNone
    /\ exc = "none"
    /\ new_meta_file = None

\* get_ttl, try branch: requests.get returns a response, whatever its status,
\* and its text is returned
GetTtlReturns ==
    /\ pc = "get_ttl"
    /\ \E r \in Responses :
         /\ ttl_get' = r
         /\ meta_ttl' = r.body
    /\ stdout' = Append(stdout, "Downloading ttl file")
    /\ pc' = "get_old_meta"
    /\ UNCHANGED <<ttl_raised, log, fetched_meta, old_meta, g, yielded, vol_img_grp_ids, i,
                   vol_info, volume_info, new_meta, exc, new_meta_file>>

\* get_ttl, except branch: requests.get raised
GetTtlExcept ==
    /\ pc = "get_ttl"
    /\ ttl_raised' = TRUE
    /\ meta_ttl' = EmptyText
    /\ stdout' = stdout \o <<"Downloading ttl file", " TTL not Found!!!">>
    /\ pc' = "get_old_meta"
    /\ UNCHANGED <<ttl_get, log, fetched_meta, old_meta, g, yielded, vol_img_grp_ids, i,
                   vol_info, volume_info, new_meta, exc, new_meta_file>>

\* get_old_meta: the response text is loaded as yaml
GetOldMetaReturns ==
    /\ pc = "get_old_meta"
    /\ \E doc \in MetaDocs :
         /\ fetched_meta' = doc
         /\ old_meta' = doc
    /\ pc' = "parse"
    /\ UNCHANGED <<ttl_get, ttl_raised, meta_ttl, stdout, log, g, yielded, vol_img_grp_ids, i,
                   vol_info, volume_info, new_meta, exc, new_meta_file>>

\* get_old_meta: requests.get or yaml.safe_load raises; nothing catches it
GetOldMetaRaises ==
    /\ pc = "get_old_meta"
    /\ \E e \in {"ConnectionError", "YAMLError"} : exc' = e
    /\ pc' = "crashed"
    /\ UNCHANGED <<ttl_get, ttl_raised, meta_ttl, stdout, log, fetched_meta, old_meta, g,
                   yielded, vol_img_grp_ids, i, vol_info, volume_info, new_meta, new_meta_file>>

\* a mutation of the guard around g.parse: no text is rejected
TurtleConforms_any(text) == TRUE

\* Graph.parse(data=meta_ttl, format="ttl") accepts the text: the empty string
\* is a Turtle document without triples
TurtleConforms(text) == text.kind \in {"empty", "turtle"}

\* parse_volume_info: g.parse succeeds
GraphParses ==
    /\ pc = "parse"
    /\ TurtleConforms(meta_ttl)
    /\ g' = meta_ttl.triples
    /\ pc' = "list_vols"
    /\ UNCHANGED <<ttl_get, ttl_raised, meta_ttl, stdout, log, fetched_meta, old_meta,
                   yielded, vol_img_grp_ids, i, vol_info, volume_info, new_meta, exc, new_meta_file>>

\* parse_volume_info: g.parse raises, the warning is logged and {} returned
GraphParseFails ==
    /\ pc = "parse"
    /\ ~TurtleConforms(meta_ttl)
    /\ log' = Append(log, Warning("bad_syntax", <<>>))
    /\ volume_info' = <<>>
    /\ pc' = "merge"
    /\ UNCHANGED <<ttl_get, ttl_raised, meta_ttl, stdout, fetched_meta, old_meta, g,
                   yielded, vol_img_grp_ids, i, vol_info, new_meta, exc, new_meta_file>>

\* mutations of get_vol_img_grp_id_list: the list left as the graph yields it,
\* and the list without its duplicates
get_vol_img_grp_id_list_unsorted(order) ==
    [k \in 1..Len(order) |-> get_img_grp_id(order[k])]

RECURSIVE Dedup(_)
Dedup(s) ==
    IF s = <<>> THEN <<>>
    ELSE IF \E k \in 1..(Len(s) - 1) : s[k] = s[Len(s)]
         THEN Dedup(SubSeq(s, 1, Len(s) - 1))
         ELSE Append(Dedup(SubSeq(s, 1, Len(s) - 1)), s[Len(s)])

get_vol_img_grp_id_list_set(order) ==
    PySort(Dedup([k \in 1..Len(order) |-> get_img_grp_id(order[k])]))

\* get_vol_img_grp_id_list, given the order in which g.objects yields the
\* volumes: the image group id of each, sorted
get_vol_img_grp_id_list(order) ==
    PySort([k \in 1..Len(order) |-> get_img_grp_id(order[k])])

\* the volume nodes of the work: g.objects(BDR[work_id], BDO["instanceHasVolume"])
Volumes(gr) == Objects(gr, BDR(bdrc_work_id), P_hasVolume)

GetVolImgGrpIdList ==
    /\ pc = "list_vols"
    /\ \E order \in Orders(Volumes(g)) :
         /\ yielded' = order
         /\ vol_img_grp_ids' = get_vol_img_grp_id_list(order)
    /\ vol_info' = <<>>
    /\ i' = 1
    /\ pc' = "loop"
    /\ UNCHANGED <<ttl_get, ttl_raised, meta_ttl, stdout, log, fetched_meta, old_meta, g,
                   volume_info, new_meta, exc, new_meta_file>>

\* a mutation of `if title:`: `if title is not None:`
TitleFound_present(gr, id) == ~IsNone(Value(gr, BDR(id), P_comment))

\* the title lookup of the loop body: the literal's value, or "" when
\* `if title:` takes the else branch
TitleFound(gr, id) == Truthy(Value(gr, BDR(id), P_comment))

TitleOf(gr, id) ==
    IF TitleFound(gr, id) THEN Value(gr, BDR(id), P_comment)[1] ELSE StrEmpty

\* a mutation of the total_pages lookup: no try/except around int()
TotalPagesUnguarded(gr, id) == PyInt(Value(gr, BDR(id), P_pagesTotal))

\* try: int(g.value(.., volumePagesTotal)) except: 0
TotalPages(gr, id) ==
    IF PyInt(Value(gr, BDR(id), P_pagesTotal)).ok
    THEN PyInt(Value(gr, BDR(id), P_pagesTotal))
    ELSE [ok |-> TRUE, val |-> 0]

\* a mutation of the volume_number lookup: 0 when int() fails
VolumeNumberDefaulted(gr, id) ==
    IF PyInt(Value(gr, BDR(id), P_volumeNumber)).ok
    THEN PyInt(Value(gr, BDR(id), P_volumeNumber))
    ELSE [ok |-> TRUE, val |-> 0]

\* int(g.value(.., volumeNumber)), not guarded
VolumeNumber(gr, id) == PyInt(Value(gr, BDR(id), P_volumeNumber))

TitleLog(gr, id) ==
    IF TitleFound(gr, id) THEN log ELSE Append(log, Warning("no_title", id))

\* one iteration of the for loop of parse_volume_info that reaches
\* vol_info[uid] = {...}
VolumeRecord ==
    /\ pc = "loop"
    /\ i <= Len(vol_img_grp_ids)
    /\ LET id == vol_img_grp_ids[i] IN
         /\ VolumeNumber(g, id).ok
         /\ TotalPages(g, id).ok
         /\ log' = TitleLog(g, id)
         /\ \E uid \in UuidSpace \ Keys(vol_info) :
              vol_info' = DictSet(vol_info, uid,
                                  [image_group_id |-> id,
                                   title |-> TitleOf(g, id),
                                   volume_number |-> VolumeNumber(g, id).val,
                                   total_pages |-> TotalPages(g, id).val])
    /\ i' = i + 1
    /\ UNCHANGED <<pc, ttl_get, ttl_raised, meta_ttl, stdout, fetched_meta, old_meta, g,
                   yielded, vol_img_grp_ids, volume_info, new_meta, exc, new_meta_file>>

\* one iteration of the for loop in which int() raises: the exception leaves
\* parse_volume_info, get_new_meta and __main__
VolumeRaises ==
    /\ pc = "loop"
    /\ i <= Len(vol_img_grp_ids)
    /\ LET id == vol_img_grp_ids[i] IN
         /\ ~VolumeNumber(g, id).ok \/ ~TotalPages(g, id).ok
         /\ log' = TitleLog(g, id)
         /\ exc' = IF ~VolumeNumber(g, id).ok THEN "volume_number" ELSE "total_pages"
    /\ pc' = "crashed"
    /\ UNCHANGED <<ttl_get, ttl_raised, meta_ttl, stdout, fetched_meta, old_meta, g,
                   yielded, vol_img_grp_ids, i, vol_info, volume_info, new_meta, new_meta_file>>

\* parse_volume_info returns vol_info after the last volume
ParseVolumeInfoReturns ==
    /\ pc = "loop"
    /\ i > Len(vol_img_grp_ids)
    /\ volume_info' = vol_info
    /\ pc' = "merge"
    /\ UNCHANGED <<ttl_get, ttl_raised, meta_ttl, stdout, log, fetched_meta, old_meta, g,
                   yielded, vol_img_grp_ids, i, vol_info, new_meta, exc, new_meta_file>>

\* mutations of the assignment of get_new_meta: the new records merged into
\* an existing volume mapping, and the source_metadata mapping replaced
RECURSIVE DictUpdate(_, _)
DictUpdate(d, e) ==
    IF e = <<>> THEN d
    ELSE DictUpdate(DictSet(d, e[1][1], e[1][2]), Tail(e))

MergeAssign_update(meta, vi) ==
    IF ~GetItem(meta, "source_metadata").ok THEN [ok |-> FALSE, val |-> meta]
    ELSE IF ~SetItem(GetItem(meta, "source_metadata").val, "volume", PyVolMap(vi)).ok
    THEN [ok |-> FALSE, val |-> meta]
    ELSE IF GetItem(GetItem(meta, "source_metadata").val, "volume").ok
    THEN SetItem(meta, "source_metadata",
                 SetItem(GetItem(meta, "source_metadata").val, "volume",
                         PyVolMap(DictUpdate(
                             GetItem(GetItem(meta, "source_metadata").val, "volume").val.v,
                             vi))).val)
    ELSE SetItem(meta, "source_metadata",
                 SetItem(GetItem(meta, "source_metadata").val, "volume", PyVolMap(vi)).val)

MergeAssign_replace(meta, vi) ==
    IF meta.t # "map" THEN [ok |-> FALSE, val |-> meta]
    ELSE SetItem(meta, "source_metadata", PyMap([k \in {"volume"} |-> PyVolMap(vi)]))

\* old_meta["source_metadata"]["volume"] = volume_info: the object after the
\* statement, or ok = FALSE when the statement raises
MergeAssign(meta, vi) ==
    IF ~GetItem(meta, "source_metadata").ok THEN [ok |-> FALSE, val |-> meta]
    ELSE IF ~SetItem(GetItem(meta, "source_metadata").val, "volume", PyVolMap(vi)).ok
    THEN [ok |-> FALSE, val |-> meta]
    ELSE SetItem(meta, "source_metadata",
                 SetItem(GetItem(meta, "source_metadata").val, "volume", PyVolMap(vi)).val)

\* get_new_meta after parse_volume_info returned: the assignment succeeds
MergeVolumeInfo ==
    /\ pc = "merge"
    /\ MergeAssign(old_meta, volume_info).ok
    /\ old_meta' = MergeAssign(old_meta, volume_info).val
    /\ new_meta' = old_meta'
    /\ pc' = "dump"
    /\ UNCHANGED <<ttl_get, ttl_raised, meta_ttl, stdout, log, fetched_meta, g,
                   yielded, vol_img_grp_ids, i, vol_info, volume_info, exc, new_meta_file>>

\* get_new_meta after parse_volume_info returned: the assignment raises, the
\* warning is logged and old_meta returned as it is
MergeExcept ==
    /\ pc = "merge"
    /\ ~MergeAssign(old_meta, volume_info).ok
    /\ log' = Append(log, Warning("no_meta", <<>>))
    /\ new_meta' = old_meta
    /\ pc' = "dump"
    /\ UNCHANGED <<ttl_get, ttl_raised, meta_ttl, stdout, fetched_meta, old_meta, g,
                   yielded, vol_img_grp_ids, i, vol_info, volume_info, exc, new_meta_file>>

\* __main__ from yaml.safe_dump to logging.info: the file is created with the
\* dumped document
WriteNewMeta ==
    /\ pc = "dump"
    /\ new_meta_file' = Some(new_meta)
    /\ log' = Append(log, Info("completed"))
    /\ pc' = "done"
    /\ UNCHANGED <<ttl_get, ttl_raised, meta_ttl, stdout, fetched_meta, old_meta, g,
                   yielded, vol_img_grp_ids, i, vol_info, volume_info, new_meta, exc>>

Next ==
    \/ GetTtlReturns
    \/ GetTtlExcept
    \/ GetOldMetaReturns
    \/ GetOldMetaRaises
    \/ GraphParses
    \/ GraphParseFails
    \/ GetVolImgGrpIdList
    \/ VolumeRecord
    \/ VolumeRaises
    \/ ParseVolumeInfoReturns
    \/ MergeVolumeInfo
    \/ MergeExcept
    \/ WriteNewMeta

Spec == Init /\ [][Next]_vars

\* ------------------------------------------------------------ claim helpers
\* get_old_meta returned and get_new_meta was called
GetNewMetaCalled == pc \in {"parse", "list_vols", "loop", "merge", "dump"}
                    \/ pc = "done"
                    \/ (pc = "crashed" /\ exc \in {"volume_number", "total_pages"})

GetNewMetaReturned == pc \in {"dump", "done"}

GetNewMetaRaised == pc = "crashed" /\ exc \in {"volume_number", "total_pages"}

\* parse_volume_info returned its mapping to get_new_meta
ParseVolumeInfoReturned == pc \in {"merge", "dump", "done"}

\* the fetched metadata is a mapping whose source_metadata value is a mapping
HasSourceMapping(doc) ==
    /\ doc.t = "map"
    /\ "source_metadata" \in DOMAIN doc.m
    /\ doc.m["source_metadata"].t = "map"

\* the warnings of one kind in the log
Warnings(msg) == {k \in 1..Len(log) : log[k].level = "WARNING" /\ log[k].msg = msg}

\* the objects of a relation of the resource node of image group id
Relation(id, p) == {t[3] : t \in {x \in g : x[1] = BDR_NS \o id /\ x[2] = p}}

\* a set of lexical forms holds one that reads as an integer
Coercible(S) == \E o \in S : IsDigits(o)

\* ---------------------------------------------------------------------- C1
\* C1: when the fetched metadata is a mapping whose source_metadata is a
\* mapping and get_new_meta has returned, source_metadata.volume of the result
\* is exactly the mapping parse_volume_info returned (an earlier volume value
\* is gone), and every other top-level key and every other key under
\* source_metadata has the value it was fetched with.
C1_MergeFrame ==
    (GetNewMetaReturned /\ HasSourceMapping(fetched_meta)) =>
        /\ new_meta = old_meta
        /\ new_meta.t = "map"
        /\ DOMAIN new_meta.m = DOMAIN fetched_meta.m
        /\ \A k \in DOMAIN fetched_meta.m :
               k # "source_metadata" => new_meta.m[k] = fetched_meta.m[k]
        /\ new_meta.m["source_metadata"].t = "map"
        /\ DOMAIN new_meta.m["source_metadata"].m =
               DOMAIN fetched_meta.m["source_metadata"].m \cup {"volume"}
        /\ \A k \in DOMAIN fetched_meta.m["source_metadata"].m :
               k # "volume" =>
                   new_meta.m["source_metadata"].m[k] = fetched_meta.m["source_metadata"].m[k]
        /\ new_meta.m["source_metadata"].m["volume"].t = "map"
        /\ new_meta.m["source_metadata"].m["volume"].v = volume_info

\* a run that replaced an earlier volume mapping by two new records
C1_Witness ==
    /\ pc = "done"
    /\ HasSourceMapping(fetched_meta)
    /\ "volume" \in DOMAIN fetched_meta.m["source_metadata"].m
    /\ "title" \in DOMAIN fetched_meta.m["source_metadata"].m
    /\ Len(volume_info) = 2
    /\ new_meta.m["source_metadata"].m["volume"].v = volume_info

\* ---------------------------------------------------------------------- C2
\* C2 as claimed: when the fetched metadata lacks source_metadata, or its
\* value is not a mapping, get_new_meta raises no exception, logs one warning
\* naming the work, and returns the metadata as it was fetched.
C2_AsClaimed ==
    (GetNewMetaCalled /\ ~HasSourceMapping(fetched_meta)) =>
        /\ ~GetNewMetaRaised
        /\ GetNewMetaReturned =>
              /\ Cardinality(Warnings("no_meta")) = 1
              /\ \A k \in Warnings("no_meta") : log[k].work = bdrc_work_id
              /\ new_meta = fetched_meta
              /\ old_meta = fetched_meta

\* C2 as amended: for such metadata the assignment of get_new_meta never
\* raises: once parse_volume_info has returned, get_new_meta logs one warning
\* naming the work and returns the metadata as it was fetched; the only
\* exception that leaves get_new_meta is the volume-number failure of
\* parse_volume_info, and the metadata is unmodified then too.
C2_MergeFailureSwallowed ==
    (GetNewMetaCalled /\ ~HasSourceMapping(fetched_meta)) =>
        /\ old_meta = fetched_meta
        /\ GetNewMetaRaised => exc = "volume_number"
        /\ GetNewMetaReturned =>
              /\ Cardinality(Warnings("no_meta")) = 1
              /\ \A k \in Warnings("no_meta") : log[k].work = bdrc_work_id
              /\ new_meta = fetched_meta
        /\ ~GetNewMetaReturned => Warnings("no_meta") = {}

\* a run that returned a mapping without source_metadata unchanged, after
\* volumes were extracted
C2_Witness ==
    /\ pc = "done"
    /\ fetched_meta.t = "map"
    /\ "source_metadata" \notin DOMAIN fetched_meta.m
    /\ Len(volume_info) >= 1
    /\ new_meta = fetched_meta
    /\ Cardinality(Warnings("no_meta")) = 1

\* ---------------------------------------------------------------------- C3
\* every volume node of the work has a volume number that reads as an integer
\* on the resource node its trailing segment names
AllVolumeNumbersOk ==
    \A u \in Volumes(g) : Coercible(Relation(LastSegment(u), P_volumeNumber))

\* C3: for a parseable graph whose work has N distinct instanceHasVolume
\* objects, each with a volume number that reads as an integer,
\* parse_volume_info does not raise and returns exactly N records, as many
\* with each image group id as volumes have that trailing segment, under
\* pairwise distinct keys.
C3_OneRecordPerVolume ==
    (TurtleConforms(meta_ttl) /\ g = meta_ttl.triples /\ AllVolumeNumbersOk) =>
        /\ ~GetNewMetaRaised
        /\ ParseVolumeInfoReturned =>
              /\ Len(volume_info) = Cardinality(Volumes(g))
              /\ \A a, b \in 1..Len(volume_info) :
                     volume_info[a][1] = volume_info[b][1] => a = b
              /\ \A u \in Volumes(g) :
                     Cardinality({k \in 1..Len(volume_info) :
                                     volume_info[k][2].image_group_id = LastSegment(u)})
                     = Cardinality({w \in Volumes(g) : LastSegment(w) = LastSegment(u)})

\* two volume nodes with the same trailing segment gave two records
C3_Witness ==
    /\ pc = "merge"
    /\ Cardinality(Volumes(g)) = 2
    /\ \A u \in Volumes(g) : LastSegment(u) = I2
    /\ Len(volume_info) = 2

\* ---------------------------------------------------------------------- C4
\* C4: the records of the mapping of parse_volume_info, in insertion order,
\* have ascending image group ids in str order, and this is the order of
\* vol_img_grp_ids in which the volumes were processed, whatever order the
\* graph yielded the volume nodes in.
C4_InsertionOrderSorted ==
    /\ \A k \in 1..Len(vol_info) :
           /\ k <= Len(vol_img_grp_ids)
           /\ vol_info[k][2].image_group_id = vol_img_grp_ids[k]
    /\ \A k \in 1..(Len(vol_info) - 1) :
           \/ vol_info[k][2].image_group_id = vol_info[k + 1][2].image_group_id
           \/ StrLess(vol_info[k][2].image_group_id, vol_info[k + 1][2].image_group_id)
    /\ ParseVolumeInfoReturned => (volume_info = vol_info /\ Len(vol_info) = Len(yielded))

\* the graph yielded I2 before I10, the records are I10 then I2, and the keys
\* are not in insertion order
C4_Witness ==
    /\ pc = "merge"
    /\ yielded = <<BDR_NS \o I2, BDR_NS \o I10>>
    /\ Len(volume_info) = 2
    /\ volume_info[1][2].image_group_id = I10
    /\ volume_info[2][2].image_group_id = I2
    /\ volume_info[1][1] > volume_info[2][1]

\* ---------------------------------------------------------------------- C5
\* the catalog GET failed: requests.get raised, or the status is not 2xx
CatalogGetFailed == ttl_raised \/ ttl_get.status < 200 \/ ttl_get.status > 299

\* C5 as claimed: once get_ttl has returned, its result is the empty string,
\* with the notice printed and nothing logged, on every failed GET, a non-2xx
\* response included, and the response body, without the notice, on success.
C5_AsClaimed ==
    (pc # "get_ttl") =>
        /\ CatalogGetFailed =>
              /\ meta_ttl = EmptyText
              /\ \E k \in 1..Len(stdout) : stdout[k] = " TTL not Found!!!"
        /\ ~CatalogGetFailed =>
              /\ meta_ttl = ttl_get.body
              /\ \A k \in 1..Len(stdout) : stdout[k] # " TTL not Found!!!"
        /\ pc = "get_old_meta" => log = <<>>

\* ---------------------------------------------------------------------- C6
\* a volume of the sorted list has no volume number that reads as an integer
SomeVolumeNumberBad ==
    \E k \in 1..Len(vol_img_grp_ids) :
        ~Coercible(Relation(vol_img_grp_ids[k], P_volumeNumber))

C7_BadSyntaxGivesEmpty ==
    (GetNewMetaCalled /\ pc # "parse" /\ meta_ttl.kind \in {"malformed", "errorpage"}) =>
        /\ ParseVolumeInfoReturned
        /\ volume_info = <<>>
        /\ Cardinality(Warnings("bad_syntax")) = 1
        /\ \A k \in Warnings("bad_syntax") : log[k].work = bdrc_work_id
        /\ vol_img_grp_ids = <<>>
        /\ vol_info = <<>>
        /\ i = 1
        /\ Warnings("no_title") = {}
        /\ exc = "none"

\* a text that breaks off after the statements of one volume
C7_Witness ==
    /\ pc = "merge"
    /\ meta_ttl.kind = "malformed"
    /\ meta_ttl.triples # {}
    /\ volume_info = <<>>
    /\ Cardinality(Warnings("bad_syntax")) = 1

\* ---------------------------------------------------------------------- C8
\* the volumes whose loop body has run up to the title lookup
TitleLookedUp ==
    {k \in 1..Len(vol_img_grp_ids) : k < i \/ (k = i /\ pc = "crashed")}

NoTitleWarnings(id) == {k \in Warnings("no_title") : log[k].vol = id}

\* C8 as claimed: a processed volume whose node has a comment relation gets
\* that literal as title and no missing-title warning; one without the
\* relation gets "" and a warning naming the volume and the work.
C8_AsClaimed ==
    /\ \A k \in 1..Len(vol_info) :
         LET id == vol_info[k][2].image_group_id IN
           /\ Relation(id, P_comment) # {} => vol_info[k][2].title \in Relation(id, P_comment)
           /\ Relation(id, P_comment) = {} => vol_info[k][2].title = StrEmpty
    /\ \A k \in TitleLookedUp :
         LET id == vol_img_grp_ids[k] IN
           /\ Relation(id, P_comment) = {} =>
                 \E w \in NoTitleWarnings(id) : log[w].work = bdrc_work_id
           /\ Relation(id, P_comment) # {} => NoTitleWarnings(id) = {}

\* a comment relation holds a literal other than the empty string
ProperTitle(id) == \E o \in Relation(id, P_comment) : o # <<>>

\* C8 as amended: a processed volume whose node has a comment relation with
\* a non-empty value gets that literal as title and no missing-title warning;
\* one whose relation is absent, or whose value is the empty string, gets ""
\* and a warning naming the volume and the work. The warning is logged only
\* for such a volume.
C8_TitleOrWarning ==
    /\ \A k \in 1..Len(vol_info) :
         LET id == vol_info[k][2].image_group_id IN
           /\ ProperTitle(id) =>
                 (vol_info[k][2].title \in Relation(id, P_comment)
                    /\ vol_info[k][2].title # StrEmpty)
           /\ ~ProperTitle(id) => vol_info[k][2].title = StrEmpty
    /\ \A k \in TitleLookedUp :
         LET id == vol_img_grp_ids[k] IN
           /\ ~ProperTitle(id) =>
                 \E w \in NoTitleWarnings(id) : log[w].work = bdrc_work_id
           /\ ProperTitle(id) => NoTitleWarnings(id) = {}
    /\ \A w \in Warnings("no_title") :
           \E k \in TitleLookedUp : vol_img_grp_ids[k] = log[w].vol

\* a volume with an empty comment was warned about, next to one with a title
C8_Witness ==
    /\ pc = "merge"
    /\ Len(volume_info) = 2
    /\ Relation(volume_info[1][2].image_group_id, P_comment) = {StrEmpty}
    /\ NoTitleWarnings(volume_info[1][2].image_group_id) # {}
    /\ volume_info[2][2].title = StrVol1
    /\ NoTitleWarnings(volume_info[2][2].image_group_id) = {}

\* ---------------------------------------------------------------------- C9
\* C9: a processed volume whose total-pages relation is absent or does not
\* read as an integer gets total_pages 0, one whose relation reads as an
\* integer gets that integer; the lookup logs nothing and raises nothing, so
\* the volumes after it are processed.
C9_TotalPagesDefault ==
    /\ \A k \in 1..Len(vol_info) :
         LET id == vol_info[k][2].image_group_id IN
           /\ ~Coercible(Relation(id, P_pagesTotal)) => vol_info[k][2].total_pages = 0
           /\ Relation(id, P_pagesTotal) = {Str50} => vol_info[k][2].total_pages = 50
    /\ exc # "total_pages"
    /\ \A k \in 1..Len(log) :
           log[k].level = "WARNING" => log[k].msg \in {"no_title", "bad_syntax", "no_meta"}
    /\ \A k \in 1..Len(vol_img_grp_ids) :
           Cardinality(NoTitleWarnings(vol_img_grp_ids[k])) <=
               Cardinality({j \in TitleLookedUp : vol_img_grp_ids[j] = vol_img_grp_ids[k]
                                                   /\ ~ProperTitle(vol_img_grp_ids[j])})
    /\ (pc = "crashed" /\ exc = "volume_number") =>
           ~Coercible(Relation(vol_img_grp_ids[i], P_volumeNumber))

\* the first volume has pages "abc", the second none, both have a title: two
\* records with total_pages 0 and an empty log
C9_Witness ==
    /\ pc = "merge"
    /\ Len(volume_info) = 2
    /\ Relation(volume_info[1][2].image_group_id, P_pagesTotal) = {StrAbc}
    /\ Relation(volume_info[2][2].image_group_id, P_pagesTotal) = {}
    /\ volume_info[1][2].total_pages = 0
    /\ volume_info[2][2].total_pages = 0
    /\ log = <<>>

\* --------------------------------------------------------------------- C10
\* the text get_ttl returned describes no volume of the work
NoVolumesInText ==
    \/ meta_ttl.kind \in {"empty", "malformed", "errorpage"}
    \/ {t \in meta_ttl.triples : t[1] = BDR_NS \o bdrc_work_id /\ t[2] = P_hasVolume} = {}

HasEmptyVolume(doc) ==
    /\ HasSourceMapping(doc)
    /\ "volume" \in DOMAIN doc.m["source_metadata"].m
    /\ doc.m["source_metadata"].m["volume"] = PyVolMap(<<>>)

\* C10: when the text get_ttl returned is empty, is not Turtle or describes no
\* volume, and the fetched metadata has a source_metadata mapping, nothing
\* ends the run before its last step (no exception, and a next step exists
\* until the file is written), parse_volume_info yields the empty mapping, and
\* the file is written with source_metadata.volume the empty mapping,
\* whatever volume value was fetched.
C10_EmptyFetchOverwrites ==
    (GetNewMetaCalled /\ NoVolumesInText /\ HasSourceMapping(fetched_meta)) =>
        /\ pc # "crashed"
        /\ exc = "none"
        /\ pc # "done" => ENABLED Next
        /\ ParseVolumeInfoReturned => volume_info = <<>>
        /\ GetNewMetaReturned => HasEmptyVolume(new_meta)
        /\ pc = "done" => (new_meta_file # None /\ HasEmptyVolume(new_meta_file[1]))
        /\ pc # "done" => new_meta_file = None

\* the catalog GET raised and the fetched volume mapping was replaced by {}
C10_Witness ==
    /\ pc = "done"
    /\ ttl_raised
    /\ meta_ttl = EmptyText
    /\ HasSourceMapping(fetched_meta)
    /\ "volume" \in DOMAIN fetched_meta.m["source_metadata"].m
    /\ fetched_meta.m["source_metadata"].m["volume"].v # <<>>
    /\ new_meta_file # None
    /\ HasEmptyVolume(new_meta_file[1])

====
